---- MODULE Spec2Model ----
(***************************************************************************)
(* Contacts REST API: the authenticated per-user contact accessor          *)
(* (app/crud/contact.py), the credential gate (app/utils/auth.py) and user *)
(* registration / login (app/crud/user.py, app/routers/user.py).           *)
(*                                                                         *)
(* Strings are sequences of one-character strings, dates are records       *)
(* [year, month, day].  Every request is one action; the variable `last`   *)
(* records the request just served (its inputs, its outcome and the store  *)
(* before it) so that post-conditions can be stated as invariants.         *)
(***************************************************************************)
EXTENDS Integers, Sequences, FiniteSets, TLC

VARIABLES users, issued, contacts, contact_seq, created_by, last, sessions

vars == <<users, issued, contacts, contact_seq, created_by, last, sessions>>

(***************************************************************************)
(* Bounds                                                                  *)
(***************************************************************************)
MaxContacts == 2

(***************************************************************************)
(* Optional values (None or a value), and the outcomes of a request        *)
(***************************************************************************)
None == <<>>
Some(v) == <<v>>
Value(opt) == opt[1]

OK == "200"
HTTP_401_UNAUTHORIZED == "401"
HTTP_409_CONFLICT == "409"
HTTP_422_UNPROCESSABLE == "422"
INTERNAL_ERROR == "500"

(***************************************************************************)
(* Dates (datetime.date)                                                   *)
(***************************************************************************)
Date(y, m, d) == [year |-> y, month |-> m, day |-> d]

IsLeap(y) == (y % 4 = 0 /\ y % 100 # 0) \/ y % 400 = 0

DaysInMonth(y, m) ==
    IF m = 2 THEN (IF IsLeap(y) THEN 29 ELSE 28)
    ELSE IF m \in {4, 6, 9, 11} THEN 30 ELSE 31

IsDate(d) ==
    /\ d.month \in 1..12
    /\ d.day \in 1..DaysInMonth(d.year, d.month)

\* date.__lt__ / date.__le__
DateLT(a, b) ==
    \/ a.year < b.year
    \/ a.year = b.year /\ a.month < b.month
    \/ a.year = b.year /\ a.month = b.month /\ a.day < b.day

DateLE(a, b) == a = b \/ DateLT(a, b)

NextDay(d) ==
    IF d.day < DaysInMonth(d.year, d.month) THEN Date(d.year, d.month, d.day + 1)
    ELSE IF d.month < 12 THEN Date(d.year, d.month + 1, 1)
    ELSE Date(d.year + 1, 1, 1)

RECURSIVE AddDays(_, _)
\* date + timedelta(days=n)
AddDays(d, n) == IF n = 0 THEN d ELSE AddDays(NextDay(d), n - 1)

\* date.replace(year=y): ValueError when the result is not a calendar date
ValueError == [error |-> "ValueError"]

ReplaceYear(d, y) ==
    IF IsDate(Date(y, d.month, d.day)) THEN Date(y, d.month, d.day) ELSE ValueError

(***************************************************************************)
(* Strings and SQL ILIKE                                                   *)
(***************************************************************************)
LowerChar(c) ==
    CASE c = "A" -> "a"
      [] c = "B" -> "b"
      [] c = "J" -> "j"
      [] c = "O" -> "o"
      [] OTHER -> c

Lower(s) == [i \in 1..Len(s) |-> LowerChar(s[i])]

RECURSIVE LikeMatch(_, _)
\* s LIKE p: '%' matches any run of characters, '_' any one character
LikeMatch(p, s) ==
    IF p = <<>> THEN s = <<>>
    ELSE IF Head(p) = "%"
         THEN LikeMatch(Tail(p), s) \/ (s # <<>> /\ LikeMatch(p, Tail(s)))
    ELSE IF s = <<>> THEN FALSE
    ELSE (Head(p) = "_" \/ Head(p) = Head(s)) /\ LikeMatch(Tail(p), Tail(s))

\* column.ilike(pattern)
ilike(s, pattern) == LikeMatch(Lower(pattern), Lower(s))

(***************************************************************************)
(* app/utils/auth.py: password hashing and the bearer credential           *)
(***************************************************************************)
SECRET_KEY == "supersecretkey"

get_password_hash(password) == <<"bcrypt", password>>

verify_password(plain_password, hashed_password) ==
    hashed_password = get_password_hash(plain_password)

\* A token is a signed payload.  `expired` tells whether its exp claim (30
\* minutes after it was issued) lies before the time of the request, `key`
\* is the key it was signed with, `wellformed` whether it has the three
\* segments of a JWT.
create_access_token(data) ==
    [wellformed |-> TRUE, key |-> SECRET_KEY, expired |-> FALSE, payload |-> data]

decode_access_token_forgiving(token) ==
    IF token.wellformed /\ token.key = SECRET_KEY THEN Some(token.payload) ELSE None

decode_access_token(token) ==
    IF token.wellformed /\ token.key = SECRET_KEY /\ ~token.expired
    THEN Some(token.payload)
    ELSE None

\* The tokens a client can present: the ones login issued, the same once
\* their 30 minutes have passed, tokens signed with another key for a
\* stored user, and a string that is not a JWT.
IssuedTokens == {create_access_token(p) : p \in issued}

ExpiredTokens == {[t EXCEPT !.expired = TRUE] : t \in IssuedTokens}

ForgedTokens ==
    {[create_access_token([user_id |-> users[i].id, email |-> users[i].email])
         EXCEPT !.key = "attackerkey"] : i \in 1..Len(users)}

NoToken == [wellformed |-> FALSE, key |-> "", expired |-> FALSE,
            payload |-> [user_id |-> 0, email |-> ""]]

AllTokens == IssuedTokens \cup ExpiredTokens \cup ForgedTokens \cup {NoToken}

(***************************************************************************)
(* app/models/user.py, app/crud/user.py                                    *)
(***************************************************************************)
User(id, username, email, hashed_password) ==
    [id |-> id, username |-> username, email |-> email,
     hashed_password |-> hashed_password,
     is_active |-> TRUE, is_verified |-> FALSE, avatar_url |-> None]

UserRows(us) == {us[i] : i \in 1..Len(us)}

\* unique=True on users.username and users.email: the commit of a row that
\* repeats either value fails with IntegrityError
UserUniqueViolation(us, row) ==
    \E u \in UserRows(us) : u.username = row.username \/ u.email = row.email

\* create_user: the outcome and the users table afterwards
create_user(us, user) ==
    IF \E u \in UserRows(us) : u.email = user.email
    THEN [status |-> HTTP_409_CONFLICT, users |-> us, ret |-> None]
    ELSE LET db_user == User(Len(us) + 1, user.username, user.email,
                             get_password_hash(user.password))
         IN IF UserUniqueViolation(us, db_user)
            THEN [status |-> INTERNAL_ERROR, users |-> us, ret |-> None]
            ELSE [status |-> OK, users |-> Append(us, db_user), ret |-> Some(db_user)]

authenticate_user(us, username, password) ==
    LET found == {u \in UserRows(us) : u.username = username}
    IN IF found = {} THEN None
       ELSE LET user == CHOOSE u \in found : TRUE
            IN IF verify_password(password, user.hashed_password) THEN Some(user) ELSE None

(***************************************************************************)
(* app/schemas/contact.py                                                  *)
(*                                                                         *)
(* A request body, and the schema object built from it, is the function    *)
(* from the field names that were explicitly supplied to their values.     *)
(***************************************************************************)
RequiredFields == {"first_name", "last_name", "email", "phone", "birthday"}
OptionalFields == {"extra", "user_id"}
ContactFields == RequiredFields \cup OptionalFields

\* ContactBase validation: the fields declared with no default must be there
ContactBase(body) == RequiredFields \subseteq DOMAIN body

\* model_dump(): every field, the unset optional ones at their default None;
\* model_dump(exclude_unset=True): only the fields that were supplied
model_dump(obj, exclude_unset) ==
    IF exclude_unset THEN obj
    ELSE [f \in ContactFields |-> IF f \in DOMAIN obj THEN obj[f] ELSE None]

\* dict.pop(key, None), for the dict that is left
Pop(d, key) == [f \in DOMAIN d \ {key} |-> d[f]]

(***************************************************************************)
(* app/crud/contact.py                                                     *)
(***************************************************************************)
\* Query.first(): rows come in primary-key order
First(rows) ==
    IF rows = {} THEN None
    ELSE Some(CHOOSE c \in rows : \A d \in rows : c.id <= d.id)

RECURSIVE All(_)
\* Query.all(): the rows as a list, in primary-key order
All(rows) ==
    IF rows = {} THEN <<>>
    ELSE LET c == CHOOSE x \in rows : \A y \in rows : x.id <= y.id
         IN <<c>> \o All(rows \ {c})

\* Query.offset(skip).limit(limit).all()
OffsetLimit(list, skip, limit) ==
    SubSeq(list, skip + 1, IF skip + limit < Len(list) THEN skip + limit ELSE Len(list))

Range(list) == {list[i] : i \in 1..Len(list)}

\* The primary key the store generates for a new contacts row
NewContactId(seq) == seq + 1

Unauthorized(cs, seq) ==
    [status |-> HTTP_401_UNAUTHORIZED, contacts |-> cs, seq |-> seq, ret |-> None]

\* The row create_contact adds: the dumped fields without user_id, the
\* generated id, and the owner taken from the token
new_contact_trusting(contact, id, user_id) ==
    LET contact_data == model_dump(contact, FALSE)
    IN Pop(contact_data, "user_id") @@
       [id |-> id,
        user_id |-> IF contact_data.user_id # None THEN contact_data.user_id
                    ELSE Some(user_id)]

new_contact(contact, id, user_id) ==
    LET contact_data == Pop(model_dump(contact, FALSE), "user_id")
    IN contact_data @@ [id |-> id, user_id |-> Some(user_id)]

create_contact(cs, seq, contact, token) ==
    LET payload == decode_access_token(token)
    IN IF payload = None THEN Unauthorized(cs, seq)
       ELSE LET user_id == Value(payload).user_id
                db_contact == new_contact(contact, NewContactId(seq), user_id)
            IN [status |-> OK, contacts |-> cs \cup {db_contact},
                seq |-> NewContactId(seq), ret |-> Some(db_contact)]

get_contacts(cs, seq, skip, limit, token) ==
    LET payload == decode_access_token(token)
    IN IF payload = None THEN Unauthorized(cs, seq)
       ELSE LET user_id == Value(payload).user_id
            IN [status |-> OK, contacts |-> cs, seq |-> seq,
                ret |-> OffsetLimit(All({c \in cs : c.user_id = Some(user_id)}),
                                    skip, limit)]

\* filter(Contact.id == contact_id, Contact.user_id == user_id) in get_contact
get_contact_filter_any_owner(cs, contact_id, user_id) ==
    {c \in cs : c.id = contact_id}

get_contact_filter(cs, contact_id, user_id) ==
    {c \in cs : c.id = contact_id /\ c.user_id = Some(user_id)}

get_contact(cs, seq, contact_id, token) ==
    LET payload == decode_access_token(token)
    IN IF payload = None THEN Unauthorized(cs, seq)
       ELSE LET user_id == Value(payload).user_id
            IN [status |-> OK, contacts |-> cs, seq |-> seq,
                ret |-> First(get_contact_filter(cs, contact_id, user_id))]

\* filter(Contact.id == contact_id, Contact.user_id == user_id) in update_contact
update_contact_filter(cs, contact_id, user_id) ==
    {c \in cs : c.id = contact_id /\ c.user_id = Some(user_id)}

\* for key, value in contact.model_dump(exclude_unset=True).items(): setattr
set_attributes_all(db_contact, contact) ==
    LET data == model_dump(contact, FALSE)
    IN [f \in DOMAIN db_contact |->
           IF f \in DOMAIN data THEN data[f] ELSE db_contact[f]]

set_attributes(db_contact, contact) ==
    LET data == model_dump(contact, TRUE)
    IN [f \in DOMAIN db_contact |->
           IF f \in DOMAIN data THEN data[f] ELSE db_contact[f]]

update_contact(cs, seq, contact_id, contact, token) ==
    LET payload == decode_access_token(token)
    IN IF payload = None THEN Unauthorized(cs, seq)
       ELSE LET user_id == Value(payload).user_id
                db_contact == First(update_contact_filter(cs, contact_id, user_id))
            IN IF db_contact # None
               THEN LET updated == set_attributes(Value(db_contact), contact)
                    IN [status |-> OK,
                        contacts |-> (cs \ {Value(db_contact)}) \cup {updated},
                        seq |-> seq, ret |-> Some(updated)]
               ELSE [status |-> OK, contacts |-> cs, seq |-> seq, ret |-> None]

\* filter(Contact.id == contact_id, Contact.user_id == user_id) in delete_contact
delete_contact_filter_any_owner(cs, contact_id, user_id) ==
    {c \in cs : c.id = contact_id}

delete_contact_filter(cs, contact_id, user_id) ==
    {c \in cs : c.id = contact_id /\ c.user_id = Some(user_id)}

\* what delete_contact returns, given the row its query found
delete_contact_returns_always(db_contact) == TRUE

delete_contact_returns(db_contact) == db_contact # None

delete_contact(cs, seq, contact_id, token) ==
    LET payload == decode_access_token(token)
    IN IF payload = None THEN Unauthorized(cs, seq)
       ELSE LET user_id == Value(payload).user_id
                db_contact == First(delete_contact_filter(cs, contact_id, user_id))
            IN [status |-> OK,
                contacts |-> IF db_contact # None THEN cs \ {Value(db_contact)} ELSE cs,
                seq |-> seq, ret |-> delete_contact_returns(db_contact)]

\* the or_(...) of three ilike conditions in search_contacts
search_condition(c, query) ==
    LET pattern == <<"%">> \o query \o <<"%">>
    IN \/ ilike(c.first_name, pattern)
       \/ ilike(c.last_name, pattern)
       \/ ilike(c.email, pattern)

search_contacts(cs, seq, query, token) ==
    LET payload == decode_access_token(token)
    IN IF payload = None THEN Unauthorized(cs, seq)
       ELSE LET user_id == Value(payload).user_id
            IN [status |-> OK, contacts |-> cs, seq |-> seq,
                ret |-> All({c \in cs : c.user_id = Some(user_id)
                                        /\ search_condition(c, query)})]

\* The loop body of get_upcoming_birthdays raises ValueError when a
\* date.replace(year=...) it evaluates has no result
birthday_raises(birthday, today) ==
    LET bday_this_year == ReplaceYear(birthday, today.year)
    IN \/ bday_this_year = ValueError
       \/ /\ DateLT(bday_this_year, today)
          /\ ReplaceYear(birthday, today.year + 1) = ValueError

\* The loop body's test, when nothing raises
is_upcoming(birthday, today) ==
    LET next_week == AddDays(today, 7)
        this_year == ReplaceYear(birthday, today.year)
        bday_this_year == IF DateLT(this_year, today)
                          THEN ReplaceYear(birthday, today.year + 1)
                          ELSE this_year
    IN DateLE(today, bday_this_year) /\ DateLE(bday_this_year, next_week)

get_upcoming_birthdays(cs, seq, today, token) ==
    LET payload == decode_access_token(token)
    IN IF payload = None THEN Unauthorized(cs, seq)
       ELSE LET user_id == Value(payload).user_id
                owned == {c \in cs : c.user_id = Some(user_id)}
            IN IF \E c \in owned : birthday_raises(c.birthday, today)
               THEN [status |-> INTERNAL_ERROR, contacts |-> cs, seq |-> seq,
                     ret |-> None]
               ELSE [status |-> OK, contacts |-> cs, seq |-> seq,
                     ret |-> All({c \in owned : is_upcoming(c.birthday, today)})]

(***************************************************************************)
(* update_contact step by step.  Each request works in a database session  *)
(* of its own (get_db): the query loads the row into the session, setattr  *)
(* changes the loaded object, commit flushes an UPDATE of the attributes   *)
(* whose value differs from the loaded one and commits it, refresh reads   *)
(* the row back.  `sessions` holds the update requests in flight, with the *)
(* order in which they read and committed.                                 *)
(***************************************************************************)
Requests == {1, 2}

IdleSession ==
    [pc |-> "idle", token |-> NoToken, contact_id |-> 0, contact |-> <<>>,
     loaded |-> None, db_contact |-> None, status |-> OK, ret |-> None,
     read_at |-> 0, committed_at |-> 0]

\* how many requests have read / committed so far
Reads == Cardinality({r \in Requests : sessions[r].read_at > 0})
Commits == Cardinality({r \in Requests : sessions[r].committed_at > 0})

\* the attributes with a net change since the row was loaded: the columns of
\* the UPDATE that the flush in db.commit() emits
net_changes(loaded, db_contact) ==
    {f \in DOMAIN db_contact : db_contact[f] # loaded[f]}

\* UPDATE contacts SET <changed columns> WHERE id = <id of the loaded row>
flush_update(cs, loaded, db_contact) ==
    {IF c.id = loaded.id
     THEN [f \in DOMAIN c |->
              IF f \in net_changes(loaded, db_contact) THEN db_contact[f] ELSE c[f]]
     ELSE c : c \in cs}

\* payload = decode_access_token(token) ... db_contact = query.first()
update_begin(Tokens, Ids, Bodies) ==
    \E r \in Requests, token \in Tokens, contact_id \in Ids, body \in Bodies :
        /\ sessions[r].pc = "idle"
        /\ ContactBase(body)
        /\ LET payload == decode_access_token(token)
               started == [sessions[r] EXCEPT !.token = token,
                                              !.contact_id = contact_id,
                                              !.contact = body]
           IN sessions' = [sessions EXCEPT ![r] =
                IF payload = None
                THEN [started EXCEPT !.pc = "done", !.status = HTTP_401_UNAUTHORIZED]
                ELSE LET db_contact == First(update_contact_filter(
                                           contacts, contact_id, Value(payload).user_id))
                     IN IF db_contact = None
                        THEN [started EXCEPT !.pc = "done"]
                        ELSE [started EXCEPT !.pc = "loaded",
                                             !.loaded = db_contact,
                                             !.db_contact = db_contact,
                                             !.read_at = Reads + 1]]
        /\ UNCHANGED <<users, issued, contacts, contact_seq, created_by, last>>

\* for key, value in contact.model_dump(exclude_unset=True).items(): setattr
update_assign ==
    \E r \in Requests :
        /\ sessions[r].pc = "loaded"
        /\ sessions' = [sessions EXCEPT
              ![r].pc = "assigned",
              ![r].db_contact =
                  Some(set_attributes(Value(sessions[r].db_contact), sessions[r].contact))]
        /\ UNCHANGED <<users, issued, contacts, contact_seq, created_by, last>>

\* db.commit()
update_commit ==
    \E r \in Requests :
        /\ sessions[r].pc = "assigned"
        /\ contacts' = flush_update(contacts, Value(sessions[r].loaded),
                                    Value(sessions[r].db_contact))
        /\ sessions' = [sessions EXCEPT ![r].pc = "committed",
                                        ![r].committed_at = Commits + 1]
        /\ UNCHANGED <<users, issued, contact_seq, created_by, last>>

\* db.refresh(db_contact); return db_contact
update_refresh ==
    \E r \in Requests :
        /\ sessions[r].pc = "committed"
        /\ LET row == First({c \in contacts : c.id = Value(sessions[r].loaded).id})
           IN sessions' = [sessions EXCEPT ![r].pc = "done",
                                           ![r].db_contact = row,
                                           ![r].ret = row]
        /\ UNCHANGED <<users, issued, contacts, contact_seq, created_by, last>>

(***************************************************************************)
(* The state after start-up: empty tables                                  *)
(***************************************************************************)
Init ==
    /\ users = <<>>
    /\ issued = {}
    /\ contacts = {}
    /\ contact_seq = 0
    /\ created_by = <<>>
    /\ last = [op |-> "init", token |-> NoToken, args |-> <<>>, status |-> OK,
               ret |-> None, old |-> {}, old_users |-> <<>>]
    /\ sessions = [r \in Requests |-> IdleSession]

\* the record of a served contact request and the store it leaves
Served(op, token, args, res) ==
    /\ contacts' = res.contacts
    /\ contact_seq' = res.seq
    /\ last' = [op |-> op, token |-> token, args |-> args, status |-> res.status,
                ret |-> res.ret, old |-> contacts, old_users |-> users]
    /\ UNCHANGED sessions

\* the request body fails schema validation: 422, the accessor is not called
Rejected(op, token, args) ==
    /\ last' = [op |-> op, token |-> token, args |-> args,
                status |-> HTTP_422_UNPROCESSABLE, ret |-> None,
                old |-> contacts, old_users |-> users]
    /\ UNCHANGED <<contacts, contact_seq, sessions>>

(***************************************************************************)
(* app/routers/user.py                                                     *)
(***************************************************************************)
register(Accounts) ==
    \E account \in Accounts :
        LET user == [username |-> account[1], email |-> account[2],
                     password |-> "secret"]
            res == create_user(users, user)
        IN /\ users' = res.users
           /\ last' = [op |-> "create_user", token |-> NoToken, args |-> user,
                       status |-> res.status, ret |-> res.ret,
                       old |-> contacts, old_users |-> users]
           /\ UNCHANGED <<issued, contacts, contact_seq, created_by, sessions>>

login(Usernames, Passwords) ==
    \E username \in Usernames, password \in Passwords :
        LET user == authenticate_user(users, username, password)
            data == [user_id |-> Value(user).id, email |-> Value(user).email]
        IN /\ issued' = IF user = None THEN issued ELSE issued \cup {data}
           /\ last' = [op |-> "login", token |-> NoToken,
                       args |-> [username |-> username, password |-> password],
                       status |-> IF user = None THEN HTTP_401_UNAUTHORIZED ELSE OK,
                       ret |-> IF user = None THEN None
                               ELSE Some(create_access_token(data)),
                       old |-> contacts, old_users |-> users]
           /\ UNCHANGED <<users, contacts, contact_seq, created_by, sessions>>

(***************************************************************************)
(* app/routers/contact.py                                                  *)
(***************************************************************************)
create_contact_route(Tokens, Bodies) ==
    \E token \in Tokens, body \in Bodies :
        LET args == [contact |-> body]
        IN IF ~ContactBase(body)
           THEN /\ Rejected("ContactCreate", token, args)
                /\ UNCHANGED <<users, issued, created_by>>
           ELSE LET res == create_contact(contacts, contact_seq, body, token)
                IN /\ res.status = OK => contact_seq < MaxContacts
                   /\ Served("create_contact", token, args, res)
                   /\ created_by' = IF res.status = OK
                                    THEN Append(created_by, token.payload.user_id)
                                    ELSE created_by
                   /\ UNCHANGED <<users, issued>>

read_contacts(Tokens, Pages) ==
    \E token \in Tokens, page \in Pages :
        /\ Served("get_contacts", token, [skip |-> page[1], limit |-> page[2]],
                  get_contacts(contacts, contact_seq, page[1], page[2], token))
        /\ UNCHANGED <<users, issued, created_by>>

read_contact(Tokens, Ids) ==
    \E token \in Tokens, contact_id \in Ids :
        /\ Served("get_contact", token, [contact_id |-> contact_id],
                  get_contact(contacts, contact_seq, contact_id, token))
        /\ UNCHANGED <<users, issued, created_by>>

update_contact_route(Tokens, Ids, Bodies) ==
    \E token \in Tokens, contact_id \in Ids, body \in Bodies :
        LET args == [contact_id |-> contact_id, contact |-> body]
        IN /\ IF ~ContactBase(body)
              THEN Rejected("ContactUpdate", token, args)
              ELSE Served("update_contact", token, args,
                          update_contact(contacts, contact_seq, contact_id, body, token))
           /\ UNCHANGED <<users, issued, created_by>>

delete_contact_route(Tokens, Ids) ==
    \E token \in Tokens, contact_id \in Ids :
        /\ Served("delete_contact", token, [contact_id |-> contact_id],
                  delete_contact(contacts, contact_seq, contact_id, token))
        /\ UNCHANGED <<users, issued, created_by>>

search_contacts_route(Tokens, Queries) ==
    \E token \in Tokens, query \in Queries :
        /\ Served("search_contacts", token, [query |-> query],
                  search_contacts(contacts, contact_seq, query, token))
        /\ UNCHANGED <<users, issued, created_by>>

upcoming_birthdays_route(Tokens, Todays) ==
    \E token \in Tokens, today \in Todays :
        /\ Served("get_upcoming_birthdays", token, [today |-> today],
                  get_upcoming_birthdays(contacts, contact_seq, today, token))
        /\ UNCHANGED <<users, issued, created_by>>

(***************************************************************************)
(* Request inputs                                                          *)
(***************************************************************************)
Alice == <<"alice", "alice@example.com">>
Bob == <<"bob", "bob@example.com">>
Accounts == {Alice, Bob}
Names == {"alice", "bob"}

Jo == <<"J", "o">>
Note == <<"n">>

BaseBody ==
    [first_name |-> Jo, last_name |-> <<"b">>, email |-> <<"a", "@", "b">>,
     phone |-> <<"1">>, birthday |-> Date(1990, 6, 28)]

\* the owner values a body may carry: the ids of the registered users
OwnerValues == {Some(users[i].id) : i \in 1..Len(users)}

ContactIds == 1..MaxContacts

\* tokens of the requests that exercise the store: every issued token and
\* one that is no JWT
DataTokens == IssuedTokens \cup {NoToken}

(***************************************************************************)
(* Spec: ownership.  Two users; bodies differ in the owner they ask for.   *)
(***************************************************************************)
Today == Date(2024, 6, 25)

OwnerBodies == {BaseBody} \cup {BaseBody @@ [user_id |-> u] : u \in OwnerValues}

Register == register(Accounts)
Login == login(Names, {"secret", "wrong"})
CreateContact == create_contact_route(DataTokens, OwnerBodies)
ReadContacts == read_contacts(DataTokens, {<<0, 100>>, <<1, 1>>})
ReadContact == read_contact(DataTokens, ContactIds)
UpdateContact == update_contact_route(DataTokens, ContactIds, OwnerBodies)
DeleteContact == delete_contact_route(DataTokens, ContactIds)
SearchAll == search_contacts_route(DataTokens, {<<>>, <<"x">>})
BirthdaysToday == upcoming_birthdays_route(DataTokens, {Today})

Next ==
    \/ Register
    \/ Login
    \/ CreateContact
    \/ ReadContacts
    \/ ReadContact
    \/ UpdateContact
    \/ DeleteContact
    \/ SearchAll
    \/ BirthdaysToday

Spec == Init /\ [][Next]_vars

(***************************************************************************)
(* SpecFields: partial update.  One user; bodies differ in the first name  *)
(* and in the note, which is unset, set, or set to None.                   *)
(***************************************************************************)
NameBodies == {BaseBody, [BaseBody EXCEPT !.first_name = <<"a">>]}

NoteBodies(Bodies) ==
    Bodies \cup {b @@ [extra |-> e] : b \in Bodies, e \in {Some(Note), None}}

\* bodies the schema rejects: no field at all, and a lone optional field
PartialBodies == {<<>>, [extra |-> None]}

FieldsRegister == register({Alice})
FieldsLogin == login({"alice"}, {"secret", "wrong"})
FieldsCreate == create_contact_route(DataTokens, NoteBodies({BaseBody}) \cup PartialBodies)
FieldsUpdate ==
    update_contact_route(DataTokens, ContactIds, NoteBodies(NameBodies) \cup PartialBodies)

NextFields ==
    \/ FieldsRegister
    \/ FieldsLogin
    \/ FieldsCreate
    \/ FieldsUpdate

SpecFields == Init /\ [][NextFields]_vars

(***************************************************************************)
(* SpecGate: the credential gate.  Every accessor operation, called with   *)
(* every kind of token, on one body.                                       *)
(***************************************************************************)
GateCreate == create_contact_route(AllTokens, {BaseBody})
GateList == read_contacts(AllTokens, {<<0, 100>>})
GateGet == read_contact(AllTokens, ContactIds)
GateUpdate == update_contact_route(AllTokens, ContactIds, {BaseBody @@ [extra |-> Some(Note)]})
GateDelete == delete_contact_route(AllTokens, ContactIds)
GateSearch == search_contacts_route(AllTokens, {<<>>})
GateBirthdays == upcoming_birthdays_route(AllTokens, {Today})

NextGate ==
    \/ Register
    \/ Login
    \/ GateCreate
    \/ GateList
    \/ GateGet
    \/ GateUpdate
    \/ GateDelete
    \/ GateSearch
    \/ GateBirthdays

SpecGate == Init /\ [][NextGate]_vars

(***************************************************************************)
(* SpecSearch: search_contacts over names and queries with letters of both *)
(* cases and the characters '_' and '%'.                                   *)
(***************************************************************************)
SearchBodies ==
    {[BaseBody EXCEPT !.first_name = fn, !.last_name = ln] :
        fn \in {Jo, <<"a", "_", "b">>}, ln \in {<<"b">>, <<"J", "O", "%">>}}

Queries == {<<>>, <<"j", "o">>, <<"O", "%">>, <<"_">>, <<"%">>}

SearchCreate == create_contact_route(DataTokens, SearchBodies)
SearchContacts == search_contacts_route(DataTokens, Queries)

NextSearch ==
    \/ Register
    \/ Login
    \/ SearchCreate
    \/ SearchContacts

SpecSearch == Init /\ [][NextSearch]_vars

(***************************************************************************)
(* SpecBirthdays: get_upcoming_birthdays over birthdays and values of      *)
(* today around the window's ends, the turn of the year and February 29.   *)
(***************************************************************************)
Birthdays ==
    {Date(1990, 6, 28), Date(1985, 7, 3), Date(1985, 12, 30), Date(2001, 1, 1),
     Date(2000, 2, 29)}

Todays ==
    {Date(2024, 6, 25), Date(2024, 12, 28), Date(2023, 6, 25), Date(2024, 2, 25)}

BirthdayBodies == {[BaseBody EXCEPT !.birthday = b] : b \in Birthdays}

BirthdayCreate == create_contact_route(DataTokens, BirthdayBodies)
UpcomingBirthdays == upcoming_birthdays_route(DataTokens, Todays)

NextBirthdays ==
    \/ Register
    \/ Login
    \/ BirthdayCreate
    \/ UpcomingBirthdays

SpecBirthdays == Init /\ [][NextBirthdays]_vars

(***************************************************************************)
(* SpecUsers: registration with every pairing of user name and email.      *)
(***************************************************************************)
AnyAccounts == Names \X {Alice[2], Bob[2]}

RegisterAny == register(AnyAccounts)

NextUsers ==
    \/ RegisterAny
    \/ Login

SpecUsers == Init /\ [][NextUsers]_vars

(***************************************************************************)
(* SpecConcurrent: two update_contact requests of one user, their steps    *)
(* interleaved in every order.                                             *)
(***************************************************************************)
ConcurrentCreate == create_contact_route(DataTokens, {BaseBody})
ConcurrentBegin == update_begin(DataTokens, ContactIds, NoteBodies(NameBodies))

NextConcurrent ==
    \/ FieldsRegister
    \/ FieldsLogin
    \/ ConcurrentCreate
    \/ ConcurrentBegin
    \/ update_assign
    \/ update_commit
    \/ update_refresh

SpecConcurrent == Init /\ [][NextConcurrent]_vars

(***************************************************************************)
(* Vocabulary of the properties                                            *)
(***************************************************************************)
\* the token passes verification: a JWT, signed with the service's key, not expired
Verifies(token) == token.wellformed /\ token.key = SECRET_KEY /\ ~token.expired

\* the user id a verified token carries
Caller == last.token.payload.user_id

\* the stored contacts of a user, and the one with a given id among them
OwnedBy(cs, user_id) == {c \in cs : c.user_id = Some(user_id)}
OwnedWithId(cs, user_id, contact_id) == {c \in OwnedBy(cs, user_id) : c.id = contact_id}

ReadOps == {"get_contact", "get_contacts", "search_contacts", "get_upcoming_birthdays"}
AccessorOps == ReadOps \cup {"create_contact", "update_contact", "delete_contact"}

\* the contacts a read returned (an Optional[Contact] or a list of contacts)
Returned == Range(last.ret)

(***************************************************************************)
(* C1: owner isolation.  A contact created with one user's token is never  *)
(* in the result of get_contact, get_contacts, search_contacts or          *)
(* get_upcoming_birthdays called with another user's token.                *)
(***************************************************************************)
C1_OwnerIsolation ==
    (last.op \in ReadOps /\ last.status = OK)
        => \A c \in Returned : created_by[c.id] = Caller

(***************************************************************************)
(* C2: create_contact with a valid token succeeds, stores exactly one new  *)
(* contact, owned by the token's user whatever user_id the body carries,   *)
(* and returns that record, whose id no contact stored before had.         *)
(***************************************************************************)
C2_CreateBindsOwner ==
    (last.op = "create_contact" /\ Verifies(last.token))
        => /\ last.status = OK
           /\ \E c \in contacts :
                /\ c \notin last.old
                /\ contacts = last.old \cup {c}
                /\ c.user_id = Some(Caller)
                /\ last.ret = Some(c)
                /\ \A d \in last.old : d.id # c.id

\* a second contact is created by a caller whose body names another user
C2_Witness ==
    /\ last.op = "create_contact"
    /\ last.status = OK
    /\ last.old # {}
    /\ "user_id" \in DOMAIN last.args.contact
    /\ last.args.contact.user_id # Some(Caller)
    /\ Cardinality(contacts) = Cardinality(last.old) + 1

(***************************************************************************)
(* C4: get_contact with a valid token of user U returns the stored contact *)
(* with that id iff it exists and U owns it; otherwise it returns None,    *)
(* the same for an id of another user's contact and for an unused id.      *)
(***************************************************************************)
C4_GetContact ==
    (last.op = "get_contact" /\ Verifies(last.token))
        => LET match == OwnedWithId(last.old, Caller, last.args.contact_id)
           IN /\ last.status = OK
              /\ contacts = last.old
              /\ IF match # {} THEN \E c \in match : last.ret = Some(c)
                 ELSE last.ret = None

\* the id asked for is stored, but belongs to another user: None
C4_Witness ==
    /\ last.op = "get_contact"
    /\ last.status = OK
    /\ \E c \in contacts : c.id = last.args.contact_id /\ c.user_id # Some(Caller)
    /\ last.ret = None

(***************************************************************************)
(* C5: update_contact on a contact the caller owns sets exactly the fields *)
(* present in the body to the supplied values and leaves every other field *)
(* of that contact, and every other contact, as it was; a body with no     *)
(* field changes nothing.                                                  *)
(***************************************************************************)
C5_UpdateAppliesSuppliedFields ==
    /\ (last.op = "update_contact" /\ Verifies(last.token))
        => LET match == OwnedWithId(last.old, Caller, last.args.contact_id)
               body == last.args.contact
           IN \A c \in match :
                /\ last.ret # None
                /\ \A f \in DOMAIN c :
                     Value(last.ret)[f] = IF f \in DOMAIN body THEN body[f] ELSE c[f]
                /\ contacts = (last.old \ {c}) \cup {Value(last.ret)}
    /\ (last.op \in {"update_contact", "ContactUpdate"} /\ DOMAIN last.args.contact = {})
        => contacts = last.old

\* the body changes the first name and leaves out the note of a contact that has one
C5_Witness ==
    /\ last.op = "update_contact"
    /\ last.status = OK
    /\ last.ret # None
    /\ "extra" \notin DOMAIN last.args.contact
    /\ Value(last.ret).extra = Some(Note)
    /\ \E c \in last.old :
          c.id = last.args.contact_id /\ c.first_name # Value(last.ret).first_name

(***************************************************************************)
(* C6: delete_contact with a valid token of user U returns true exactly    *)
(* when a contact with that id owned by U was stored, and removes it;      *)
(* otherwise it returns false, raises nothing and changes nothing; a       *)
(* delete repeated right after a delete of the same id returns false.      *)
(***************************************************************************)
C6_DeleteReturn ==
    (last.op = "delete_contact" /\ Verifies(last.token))
        => LET match == OwnedWithId(last.old, Caller, last.args.contact_id)
           IN /\ last.status = OK
              /\ last.ret = (match # {})
              /\ contacts = last.old \ match

C6_SecondDelete ==
    (/\ last.op = "delete_contact" /\ Verifies(last.token)
     /\ last'.op = "delete_contact" /\ Verifies(last'.token)
     /\ last'.token = last.token
     /\ last'.args = last.args)
        => last'.ret = FALSE

\* C6: the return value and effect of every delete, and the repeated delete
C6_Delete == []C6_DeleteReturn /\ [][C6_SecondDelete]_vars

\* a delete removed the caller's contact
C6_Witness ==
    /\ last.op = "delete_contact"
    /\ last.status = OK
    /\ last.ret = TRUE
    /\ \E c \in last.old : c.id = last.args.contact_id /\ c \notin contacts

(***************************************************************************)
(* C10: update_contact and delete_contact called as user B with an id that *)
(* is not stored or belongs to another user return None / false and leave  *)
(* every contact as it was; no call made as B modifies or removes a        *)
(* contact that B does not own.                                            *)
(***************************************************************************)
C10_NotOwnedUntouched ==
    /\ (/\ last.op \in {"update_contact", "delete_contact"}
        /\ Verifies(last.token)
        /\ OwnedWithId(last.old, Caller, last.args.contact_id) = {})
        => /\ last.status = OK
           /\ IF last.op = "delete_contact" THEN last.ret = FALSE ELSE last.ret = None
           /\ contacts = last.old
    /\ (last.op \in AccessorOps /\ Verifies(last.token))
        => \A c \in last.old : c.user_id # Some(Caller) => c \in contacts

\* B asks to delete a stored contact of another user
C10_Witness ==
    /\ last.op = "delete_contact"
    /\ last.status = OK
    /\ \E c \in last.old : c.id = last.args.contact_id /\ c.user_id # Some(Caller)
    /\ last.ret = FALSE

(***************************************************************************)
(* C3: an accessor operation called with a token that fails verification   *)
(* ends in 401, returns no contact data and leaves the stored contacts and *)
(* all their fields as they were.                                          *)
(***************************************************************************)
C3_UnauthenticatedRejected ==
    (last.op \in AccessorOps /\ ~Verifies(last.token))
        => /\ last.status = HTTP_401_UNAUTHORIZED
           /\ last.ret = None
           /\ contacts = last.old

\* an expired token of the owner is presented to update a stored contact
C3_Witness ==
    /\ last.op = "update_contact"
    /\ last.token.expired
    /\ last.status = HTTP_401_UNAUTHORIZED
    /\ OwnedWithId(contacts, Caller, last.args.contact_id) # {}

(***************************************************************************)
(* C7: get_upcoming_birthdays returns exactly the caller's contacts whose  *)
(* birthday, placed in today's year or in the next year when that date is  *)
(* before today, lies in [today, today + 7 days].                          *)
(***************************************************************************)
\* the birthday's month and day in today's year, or the next when that is past
Anchored(birthday, today) ==
    LET this_year == Date(today.year, birthday.month, birthday.day)
    IN IF DateLT(this_year, today)
       THEN Date(today.year + 1, birthday.month, birthday.day)
       ELSE this_year

InWindow(birthday, today) ==
    LET d == Anchored(birthday, today)
    IN IsDate(d) /\ DateLE(today, d) /\ DateLE(d, AddDays(today, 7))

C7_UpcomingBirthdays ==
    (last.op = "get_upcoming_birthdays" /\ Verifies(last.token))
        => /\ last.status = OK
           /\ Returned = {c \in OwnedBy(last.old, Caller) :
                            InWindow(c.birthday, last.args.today)}

(***************************************************************************)
(* C8: search_contacts returns exactly the caller's contacts whose first   *)
(* name, last name or email contains the query as a case-insensitive       *)
(* substring, for every query, '%' and '_' included; the empty query       *)
(* returns all the caller's contacts.                                      *)
(***************************************************************************)
\* q occurs in s, letters compared without case
Contains(s, q) ==
    \E i \in 1..(Len(s) + 1) :
        /\ i + Len(q) - 1 <= Len(s)
        /\ SubSeq(Lower(s), i, i + Len(q) - 1) = Lower(q)

C8_SearchSubstring ==
    (last.op = "search_contacts" /\ Verifies(last.token))
        => /\ last.status = OK
           /\ Returned = {c \in OwnedBy(last.old, Caller) :
                            \/ Contains(c.first_name, last.args.query)
                            \/ Contains(c.last_name, last.args.query)
                            \/ Contains(c.email, last.args.query)}

(***************************************************************************)
(* C9: create_user with an email or a username that a stored user already  *)
(* has ends in 409 and adds no user; no two stored users share an email or *)
(* a username.                                                             *)
(***************************************************************************)
C9_DuplicateIsConflict ==
    /\ (/\ last.op = "create_user"
        /\ \E u \in UserRows(last.old_users) :
              u.email = last.args.email \/ u.username = last.args.username)
        => /\ last.status = HTTP_409_CONFLICT
           /\ users = last.old_users
    /\ \A i, j \in 1..Len(users) :
          i # j => users[i].email # users[j].email /\ users[i].username # users[j].username

(***************************************************************************)
(* C12: get_upcoming_birthdays with a valid token returns a result and     *)
(* never fails, whatever today is and whatever valid calendar dates the    *)
(* stored birthdays are, February 29 included.                             *)
(***************************************************************************)
C12_BirthdaysNeverFail ==
    (/\ last.op = "get_upcoming_birthdays"
     /\ Verifies(last.token)
     /\ \A c \in last.old : IsDate(c.birthday))
        => last.status = OK

(***************************************************************************)
(* C11: when two update_contact requests of one user for one contact run   *)
(* with their steps interleaved, both complete without error, the contact  *)
(* ends with the value of the request that committed last in every field   *)
(* that request supplied, and no field ever holds a value that neither     *)
(* request nor the state before them supplied.                             *)
(***************************************************************************)
\* two requests of the same caller that loaded the same contact
SameContact(r1, r2) ==
    /\ r1 # r2
    /\ sessions[r1].read_at > 0
    /\ sessions[r2].read_at > 0
    /\ sessions[r1].contact_id = sessions[r2].contact_id
    /\ sessions[r1].token.payload.user_id = sessions[r2].token.payload.user_id

\* the values a field may take: the one before the requests, and theirs
Supplied(r1, r2, f) ==
    LET first == IF sessions[r1].read_at < sessions[r2].read_at THEN r1 ELSE r2
    IN {Value(sessions[first].loaded)[f]}
       \cup {sessions[r].contact[f] : r \in {q \in {r1, r2} : f \in DOMAIN sessions[q].contact}}

C11_LastWriterWins ==
    \A r1, r2 \in Requests :
        SameContact(r1, r2) =>
            \A c \in {x \in contacts : x.id = sessions[r1].contact_id} :
                /\ \A f \in DOMAIN c : c[f] \in Supplied(r1, r2, f)
                /\ (/\ sessions[r1].pc = "done"
                    /\ sessions[r2].pc = "done"
                    /\ sessions[r1].committed_at < sessions[r2].committed_at)
                    => /\ sessions[r1].status = OK
                       /\ sessions[r2].status = OK
                       /\ \A f \in DOMAIN sessions[r2].contact :
                             c[f] = sessions[r2].contact[f]

====
